---- MODULE Spec2Model ----
(***************************************************************************)
(* pyramid_swagger/tween.py: the request/response validation tween.        *)
(*                                                                         *)
(* Strings are sequences of one-character strings, so that str.split and   *)
(* the two regular expressions of the module are computed, not assumed.    *)
(* Five specifications share the variables:                                *)
(*   Spec         one tween built by validation_tween_factory, serving     *)
(*                requests one after the other;                            *)
(*   SpecMatch    partial_path_match applied to every pair of bounded      *)
(*                paths, under the default placeholder pattern;            *)
(*   SpecSym      partial_path_match applied to a pair of paths in both    *)
(*                argument orders, under a placeholder pattern;            *)
(*   SpecStartup  validation_tween_factory on the settings and the         *)
(*                specification document, then the tween if one was built; *)
(*   SpecConc     one tween serving several requests at a time.            *)
(***************************************************************************)
EXTENDS Integers, Sequences, FiniteSets, TLC

VARIABLES
    schema_map,                   \* schema_resolver.schema_map: <<[path, method, value]>>
    enable_response_validation,   \* the registry setting read by the factory
    request,                      \* the request the tween is serving
    pc,                           \* position of validator_tween
    schema_data,                  \* the tween's local schema_data
    response,                     \* the tween's local response
    outcome,                      \* how the tween call ended: returned or raised
    handler_calls,                \* calls of handler(request) for this request
    validated,                    \* validators run for this request, in order
    p1, p2,                       \* arguments of partial_path_match (SpecMatch)
    mpc,                          \* SpecMatch: "input" or "done"
    match_result,                 \* SpecMatch: the value returned
    kwarg_re,                     \* SpecSym: the kwarg_re argument of partial_path_match
    match_swapped,                \* SpecSym: the value returned for (p2, p1)
    settings,                     \* registry.settings, as the factory reads it
    spec_doc,                     \* the file at schema_path
    tween,                        \* "unbuilt", "built" or "failed": what the factory gave
    startup_log,                  \* the startup steps the factory ran, in order
    slots                         \* SpecConc: the locals of each validator_tween call in flight

vars == <<schema_map, enable_response_validation, request, pc, schema_data,
          response, outcome, handler_calls, validated, p1, p2, mpc, match_result,
          kwarg_re, match_swapped, settings, spec_doc, tween, startup_log, slots>>

tween_vars == <<schema_map, enable_response_validation, request, pc, schema_data,
                response, outcome, handler_calls, validated>>

match_vars == <<p1, p2, mpc, match_result>>

sym_vars == <<kwarg_re, match_swapped>>

startup_vars == <<settings, spec_doc, tween, startup_log>>

conc_vars == <<slots>>

(***************************************************************************)
(* Bounds.                                                                 *)
(***************************************************************************)
\* longest path, in characters, given to partial_path_match in SpecMatch
MaxLen == 3
\* most entries of a schema map in Spec
MaxEntries == 2
\* validator_tween calls in flight at a time in SpecConc
NumSlots == 2

(***************************************************************************)
(* Strings.                                                                *)
(***************************************************************************)
Alphabet == {"/", "a", "b", "{", "}"}

BoundedStrings == UNION {[1..n -> Alphabet] : n \in 0..MaxLen}

\* the characters \w matches, among those the model's strings use
WordChars == {"a", "b", "c", "d", "e", "f", "g", "h", "i", "l", "m", "n", "o",
              "p", "r", "s", "t", "2", "4", "_"}

\* str.split('/'): the pieces between the separators, empty pieces kept, so
\* ''.split('/') is [''] and '/foo/'.split('/') is ['', 'foo', '']
RECURSIVE split(_)
split(p) ==
    IF p = <<>> THEN << <<>> >>
    ELSE LET rest == split(Tail(p))
         IN  IF Head(p) = "/"
             THEN << <<>> >> \o rest
             ELSE << <<Head(p)>> \o Head(rest) >> \o Tail(rest)

\* re.compile(r'\{.*\}').match(s): anchored at the start of s only; '{', then
\* any characters, then a '}' somewhere; what follows the '}' is not looked at
kwarg_re_match(s) ==
    /\ Len(s) >= 2
    /\ s[1] = "{"
    /\ \E j \in 2..Len(s) : s[j] = "}"

\* the loop of partial_path_match over zip(split_p1, split_p2), from pos on
RECURSIVE match_segments(_, _, _)
match_segments(s1, s2, pos) ==
    IF pos > Len(s1) \/ pos > Len(s2) THEN TRUE
    ELSE IF kwarg_re_match(s1[pos]) \/ kwarg_re_match(s2[pos])
         THEN match_segments(s1, s2, pos + 1)
         ELSE IF ~(s1[pos] = s2[pos])
              THEN FALSE
              ELSE match_segments(s1, s2, pos + 1)

\* a faulty variant: the length check of partial_path_match left out, so that zip
\* compares only the common prefix of the segments
partial_path_match_no_len(a, b) ==
    match_segments(split(a), split(b), 1)

partial_path_match(a, b) ==
    LET split_p1 == split(a)
        split_p2 == split(b)
    IN  IF Len(split_p1) # Len(split_p2)
        THEN FALSE
        ELSE match_segments(split_p1, split_p2, 1)

\* a compiled pattern: a sequence of tokens, each a literal character or
\* AnyChars, the '.*' of the regular expression
AnyChars == ".*"

\* the default of the kwarg_re parameter: r'\{.*\}'
DefaultKwargRe == <<"{", AnyChars, "}">>

\* the patterns given to partial_path_match in SpecSym: the default, r'\{',
\* r'a.*', r'.*\}', r'.*' and the empty pattern
KwargRes ==
    {DefaultKwargRe, <<"{">>, <<"a", AnyChars>>, <<AnyChars, "}">>, <<AnyChars>>, <<>>}

\* the paths given to partial_path_match in SpecSym
SymStrings == UNION {[1..n -> Alphabet \ {"b"}] : n \in 0..MaxLen}

\* re.compile(pattern).match(s): the pattern matched from the start of s, the
\* text after the match free
RECURSIVE re_match(_, _)
re_match(pat, s) ==
    IF pat = <<>> THEN TRUE
    ELSE IF Head(pat) = AnyChars
         THEN \E k \in 0..Len(s) : re_match(Tail(pat), SubSeq(s, k + 1, Len(s)))
         ELSE /\ Len(s) > 0
              /\ Head(s) = Head(pat)
              /\ re_match(Tail(pat), Tail(s))

\* the loop of partial_path_match, for the pattern pat
RECURSIVE match_segments_re(_, _, _, _)
match_segments_re(s1, s2, pos, pat) ==
    IF pos > Len(s1) \/ pos > Len(s2) THEN TRUE
    ELSE IF re_match(pat, s1[pos]) \/ re_match(pat, s2[pos])
         THEN match_segments_re(s1, s2, pos + 1, pat)
         ELSE IF ~(s1[pos] = s2[pos])
              THEN FALSE
              ELSE match_segments_re(s1, s2, pos + 1, pat)

\* a faulty variant: a placeholder counts in the first path only
partial_path_match_p1_only(a, b, pat) ==
    LET split_p1 == split(a)
        split_p2 == split(b)
    IN  /\ Len(split_p1) = Len(split_p2)
        /\ \A k \in 1..Len(split_p1) :
              re_match(pat, split_p1[k]) \/ split_p1[k] = split_p2[k]

\* partial_path_match(p1, p2, kwarg_re) with the pattern given
partial_path_match_kwarg_re(a, b, pat) ==
    LET split_p1 == split(a)
        split_p2 == split(b)
    IN  IF Len(split_p1) # Len(split_p2)
        THEN FALSE
        ELSE match_segments_re(split_p1, split_p2, 1, pat)

(***************************************************************************)
(* Python values.  Every value has the same three fields; v is the text of *)
(* a scalar and items the mapping of a dict.                               *)
(***************************************************************************)
EmptyItems == [k \in {} |-> ""]

PyNone == [t |-> "None", v |-> "", items |-> EmptyItems]

PyStr(s) == [t |-> "str", v |-> s, items |-> EmptyItems]

PyDict(d) == [t |-> "dict", v |-> "", items |-> d]

(***************************************************************************)
(* Schemas.  is_none marks Python's None; type, properties and required    *)
(* are the JSON-schema keywords of the same names (a property's own        *)
(* required flag is draft 3's, the object's required list is draft 4's).   *)
(***************************************************************************)
NoneSchema ==
    [is_none |-> TRUE, type |-> "", properties |-> EmptyItems, required |-> {}]

\* path parameters of /items/{id}: id of the extension type int, required
PathIdInt ==
    [is_none |-> FALSE, type |-> "object",
     properties |-> [id |-> [type |-> "int", required |-> TRUE]],
     required |-> {}]

\* path parameters of /items/{id}: id a string, required
PathIdString ==
    [is_none |-> FALSE, type |-> "object",
     properties |-> [id |-> [type |-> "string", required |-> TRUE]],
     required |-> {}]

\* query parameters: an optional limit of the extension type int
QueryLimitInt ==
    [is_none |-> FALSE, type |-> "object",
     properties |-> [limit |-> [type |-> "int", required |-> FALSE]],
     required |-> {}]

\* a draft 4 body: an object with a required string name
BodyName ==
    [is_none |-> FALSE, type |-> "object",
     properties |-> [name |-> [type |-> "string", required |-> FALSE]],
     required |-> {"name"}]

\* `if schema:` is false for None (and for an empty dict, which no bundle of
\* the model holds)
truthy(schema) == ~schema.is_none

(***************************************************************************)
(* jsonschema, as tween.py uses it: DraftNValidator(schema,                *)
(* types=EXTENDED_TYPES).validate(instance) raises the first error of      *)
(* iter_errors.  Every schema above admits at most one error per instance. *)
(***************************************************************************)
NoMsg == [validator |-> "", subject |-> PyNone, arg |-> "", path |-> <<>>]

Msg(validator, subject, arg) ==
    [validator |-> validator, subject |-> subject, arg |-> arg, path |-> <<>>]

\* Validator.is_type with the default types updated by EXTENDED_TYPES:
\* isinstance(instance, (int,)) for 'int', isinstance(instance, (float,)) for
\* 'float'; a str is neither, whatever its text
is_type(instance, type) ==
    CASE type = "object"  -> instance.t = "dict"
      [] type = "string"  -> instance.t = "str"
      [] type = "integer" -> instance.t = "int"
      [] type = "number"  -> instance.t \in {"int", "float"}
      [] type = "int"     -> instance.t = "int"
      [] type = "float"   -> instance.t = "float"
      [] OTHER            -> FALSE

\* the errors of iter_errors; draft is 3 or 4
iter_errors(draft, instance, schema) ==
    LET type_errors ==
            IF schema.type # "" /\ ~is_type(instance, schema.type)
            THEN {Msg("type", instance, schema.type)}
            ELSE {}
        props == DOMAIN schema.properties
        property_errors ==
            IF ~is_type(instance, "object") THEN {}
            ELSE {Msg("type", instance.items[p], schema.properties[p].type) :
                    p \in {q \in props \cap DOMAIN instance.items :
                             ~is_type(instance.items[q], schema.properties[q].type)}}
                 \cup
                 {Msg("required", instance, p) :
                    p \in {q \in props \ DOMAIN instance.items :
                             draft = 3 /\ schema.properties[q].required}}
        required_errors ==
            IF draft = 4 /\ is_type(instance, "object")
            THEN {Msg("required", instance, p) :
                    p \in schema.required \ DOMAIN instance.items}
            ELSE {}
    IN  type_errors \cup property_errors \cup required_errors

\* Validator.validate: "Valid", or "Invalid" with the error raised
validate(draft, instance, schema) ==
    LET errs == iter_errors(draft, instance, schema)
    IN  IF errs = {}
        THEN [result |-> "Valid", msg |-> NoMsg]
        ELSE [result |-> "Invalid", msg |-> CHOOSE e \in errs : TRUE]

(***************************************************************************)
(* The skip pattern.                                                       *)
(***************************************************************************)
StaticPrefix == <<"/", "s", "t", "a", "t", "i", "c">>

\* skip_validation_re.match(path) with r'/(static)\b': anchored at the start
\* of the path; after '/static' the path ends or goes on with a non-word
\* character
skip_validation_re_match(path) ==
    /\ Len(path) >= Len(StaticPrefix)
    /\ SubSeq(path, 1, Len(StaticPrefix)) = StaticPrefix
    /\ (Len(path) = Len(StaticPrefix) \/ path[Len(StaticPrefix) + 1] \notin WordChars)

(***************************************************************************)
(* The schema map: what load_schema hands to the factory.                  *)
(***************************************************************************)
ItemsPath == <<"/", "i", "t", "e", "m", "s">>

ItemIdTemplate == ItemsPath \o <<"/", "{", "i", "d", "}">>

ItemAbcPath == ItemsPath \o <<"/", "a", "b", "c">>

Item42Path == ItemsPath \o <<"/", "4", "2">>

StaticTemplate == StaticPrefix \o <<"/", "{", "f", "}">>

StaticLogoPath == StaticPrefix \o <<"/", "l", "o", "g", "o", ".", "p", "n", "g">>

Bundle(q, p, b, r) ==
    [request_query_schema |-> q, request_path_schema |-> p,
     request_body_schema |-> b, response_body_schema |-> r]

NoBundle == Bundle(NoneSchema, NoneSchema, NoneSchema, NoneSchema)

Entry(path, method, value) == [path |-> path, method |-> method, value |-> value]

\* GET /items/{id}: id is an int; the response is an object with a name
GetItem == Entry(ItemIdTemplate, "GET", Bundle(NoneSchema, PathIdInt, NoneSchema, BodyName))

\* POST /items: the body is an object with a name; no response schema
PostItems == Entry(ItemsPath, "POST", Bundle(NoneSchema, NoneSchema, BodyName, NoneSchema))

\* GET /items: an optional int limit in the query; the response is an object
\* with a name
GetItems == Entry(ItemsPath, "GET", Bundle(QueryLimitInt, NoneSchema, NoneSchema, BodyName))

\* GET /items/abc: a literal path that /items/{id} also matches
GetItemAbc == Entry(ItemAbcPath, "GET", Bundle(NoneSchema, NoneSchema, NoneSchema, BodyName))

\* GET /static/{f}: a declared endpoint under the skip pattern
GetStatic == Entry(StaticTemplate, "GET", Bundle(QueryLimitInt, NoneSchema, BodyName, BodyName))

\* POST /items/{id}: schemas for the query, the path, the body and the response
PostItem == Entry(ItemIdTemplate, "POST", Bundle(QueryLimitInt, PathIdString, BodyName, BodyName))

Entries == {GetItem, PostItems, GetItems, GetItemAbc, GetStatic, PostItem}

\* the maps of at most MaxEntries entries with different (path, method) keys,
\* in every iteration order
SchemaMaps ==
    {m \in UNION {[1..n -> Entries] : n \in 0..MaxEntries} :
        \A i, j \in DOMAIN m : i # j => m[i] # m[j]}

(***************************************************************************)
(* Requests and the handler's responses.                                   *)
(***************************************************************************)
RequestPaths == {Item42Path, ItemAbcPath, ItemsPath, StaticLogoPath}

Methods == {"GET", "POST"}

\* request.params: the query string, every value a str
ParamsSet == {EmptyItems, [limit |-> PyStr("10")]}

\* request.matchdict: the matched route variables, every value a str
MatchdictSet == {EmptyItems, [id |-> PyStr("42")], [id |-> PyStr("abc")]}

\* request.json_body, when the request has the attribute
JsonBodies == {PyDict(EmptyItems), PyDict([name |-> PyStr("x")])}

Requests ==
    [path : RequestPaths, method : Methods, params : ParamsSet,
     matchdict : MatchdictSet, has_json_body : {TRUE}, json_body : JsonBodies]
    \cup
    [path : RequestPaths, method : Methods, params : ParamsSet,
     matchdict : MatchdictSet, has_json_body : {FALSE}, json_body : {PyNone}]

NoRequest ==
    [path |-> <<>>, method |-> "", params |-> EmptyItems, matchdict |-> EmptyItems,
     has_json_body |-> FALSE, json_body |-> PyNone]

JsonContentType == "application/json; charset=UTF-8"

\* response.headers
HeadersSet ==
    {[ContentType |-> JsonContentType, XUpstream |-> "none"],
     [ContentType |-> "text/html", XUpstream |-> "none"],
     [ContentType |-> "text/html", XUpstream |-> JsonContentType]}

\* response.content
Contents == {"{\"name\": \"x\"}", "{}", "oops"}

Responses == [content : Contents, headers : HeadersSet]

NoResponse == [content |-> "", headers |-> [ContentType |-> "", XUpstream |-> ""]]

(***************************************************************************)
(* The functions of tween.py.                                              *)
(***************************************************************************)
\* what swagger_schema_for_request returns: None, or an entry's value
NoneData == [is_none |-> TRUE, value |-> NoBundle]

SomeData(value) == [is_none |-> FALSE, value |-> value]

\* the loop of swagger_schema_for_request over schema_map.items(), from the
\* i-th entry on; s_method is unpacked and never read
RECURSIVE schema_for_request_from(_, _, _)
schema_for_request_from(req, map, i) ==
    IF i > Len(map) THEN NoneData
    ELSE IF partial_path_match(req.path, map[i].path)
         THEN SomeData(map[i].value)
         ELSE schema_for_request_from(req, map, i + 1)

\* a faulty variant: the first entry of the map, whatever its path
swagger_schema_for_request_first(req, map) ==
    IF map = <<>> THEN NoneData ELSE SomeData(map[1].value)

\* a faulty variant: the last entry whose path matches, as when a later match
\* overwrites an earlier one
swagger_schema_for_request_last(req, map) ==
    LET hits == {i \in DOMAIN map : partial_path_match(req.path, map[i].path)}
    IN  IF hits = {} THEN NoneData
        ELSE SomeData(map[CHOOSE i \in hits : \A j \in hits : j <= i].value)

swagger_schema_for_request(req, map) ==
    schema_for_request_from(req, map, 1)

\* one validator run, as the log keeps it
Check(target, draft, instance, schema) ==
    LET r == validate(draft, instance, schema)
    IN  [target |-> target, instance |-> instance, result |-> r.result, msg |-> r.msg]

\* getattr(request, 'json_body', {})
body_of(req) == IF req.has_json_body THEN req.json_body ELSE PyDict(EmptyItems)

Failed(log) == log # <<>> /\ log[Len(log)].result # "Valid"

\* a faulty variant: the path parameters are validated before the query
validate_incoming_request_path_first(req, b) ==
    IF skip_validation_re_match(req.path)
    THEN <<>>
    ELSE LET pa == IF truthy(b.request_path_schema)
                   THEN <<Check("path", 3, PyDict(req.matchdict), b.request_path_schema)>>
                   ELSE <<>>
             q  == IF ~Failed(pa) /\ truthy(b.request_query_schema)
                   THEN <<Check("query", 3, PyDict(req.params), b.request_query_schema)>>
                   ELSE <<>>
             bo == IF ~Failed(pa \o q) /\ truthy(b.request_body_schema)
                   THEN <<Check("body", 4, body_of(req), b.request_body_schema)>>
                   ELSE <<>>
         IN  pa \o q \o bo

\* validate_incoming_request: the validators run, in order, up to the first
\* ValidationError
validate_incoming_request(req, b) ==
    IF skip_validation_re_match(req.path)
    THEN <<>>
    ELSE LET q  == IF truthy(b.request_query_schema)
                   THEN <<Check("query", 3, PyDict(req.params), b.request_query_schema)>>
                   ELSE <<>>
             pa == IF ~Failed(q) /\ truthy(b.request_path_schema)
                   THEN <<Check("path", 3, PyDict(req.matchdict), b.request_path_schema)>>
                   ELSE <<>>
             bo == IF ~Failed(q \o pa) /\ truthy(b.request_body_schema)
                   THEN <<Check("body", 4, body_of(req), b.request_body_schema)>>
                   ELSE <<>>
         IN  q \o pa \o bo

NoExc == [kind |-> "", msg |-> NoMsg]

Exc(kind, msg) == [kind |-> kind, msg |-> msg]

\* a faulty variant: the ValidationError is swallowed
validate_request_swallowing(req, b) ==
    [log |-> validate_incoming_request(req, b), exc |-> NoExc]

\* _validate_request: a ValidationError becomes HTTPClientError(str(exc))
validate_request(req, b) ==
    LET log == validate_incoming_request(req, b)
    IN  [log |-> log,
         exc |-> IF Failed(log)
                 THEN Exc("HTTPClientError", log[Len(log)].msg)
                 ELSE NoExc]

\* simplejson.loads on the contents the handler of the model produces
loads(text) ==
    CASE text = "{\"name\": \"x\"}" -> [ok |-> TRUE, value |-> PyDict([name |-> PyStr("x")])]
      [] text = "{}"                -> [ok |-> TRUE, value |-> PyDict(EmptyItems)]
      [] OTHER                      -> [ok |-> FALSE, value |-> PyNone]

\* prepare_body: the decoded content when any header's value is the JSON
\* content type, else the raw content; ok is false when loads raises
prepare_body(resp) ==
    IF JsonContentType \in {resp.headers[h] : h \in DOMAIN resp.headers}
    THEN loads(resp.content)
    ELSE [ok |-> TRUE, value |-> PyStr(resp.content)]

\* Draft4Validator(schema, ...).validate(body) of validate_outgoing_response:
\* with schema None, iter_errors calls None.get and raises AttributeError
CheckResponse(body, schema) ==
    IF schema.is_none
    THEN [target |-> "response", instance |-> body, result |-> "AttributeError",
          msg |-> NoMsg]
    ELSE Check("response", 4, body, schema)

\* a faulty variant: the skip pattern is not consulted for the response
validate_outgoing_response_no_skip(req, resp, b) ==
    LET body == prepare_body(resp)
    IN  IF ~body.ok
        THEN [log |-> <<>>, exc |-> Exc("JSONDecodeError", NoMsg)]
        ELSE LET c == CheckResponse(body.value, b.response_body_schema)
             IN  [log |-> <<c>>,
                  exc |-> CASE c.result = "Valid"   -> NoExc
                            [] c.result = "Invalid" -> Exc("ValidationError", c.msg)
                            [] OTHER                -> Exc(c.result, NoMsg)]

\* validate_outgoing_response: the validator run and the exception raised
validate_outgoing_response(req, resp, b) ==
    IF skip_validation_re_match(req.path)
    THEN [log |-> <<>>, exc |-> NoExc]
    ELSE LET body == prepare_body(resp)
         IN  IF ~body.ok
             THEN [log |-> <<>>, exc |-> Exc("JSONDecodeError", NoMsg)]
             ELSE LET c == CheckResponse(body.value, b.response_body_schema)
                  IN  [log |-> <<c>>,
                       exc |-> CASE c.result = "Valid"   -> NoExc
                                 [] c.result = "Invalid" -> Exc("ValidationError", c.msg)
                                 [] OTHER                -> Exc(c.result, NoMsg)]

\* a faulty variant: the ValidationError of a response becomes a client error
validate_response_as_client_error(req, resp, b) ==
    LET r == validate_outgoing_response(req, resp, b)
    IN  [log |-> r.log,
         exc |-> IF r.exc.kind = "ValidationError"
                 THEN Exc("HTTPClientError", r.exc.msg)
                 ELSE r.exc]

\* _validate_response: a ValidationError becomes
\* HTTPInternalServerError(str(exc)); any other exception passes through
validate_response(req, resp, b) ==
    LET r == validate_outgoing_response(req, resp, b)
    IN  [log |-> r.log,
         exc |-> IF r.exc.kind = "ValidationError"
                 THEN Exc("HTTPInternalServerError", r.exc.msg)
                 ELSE r.exc]

\* the message of validator_tween's own HTTPClientError, with the path it
\* formats in
UnresolvedMsg(path) ==
    [validator |-> "Could not find the relevant path", subject |-> PyNone,
     arg |-> "", path |-> path]

\* a faulty variant: the test of validator_tween inverted
bails_inverted(sd) == ~sd.is_none

\* `if schema_data is None` of validator_tween
bails(sd) == sd.is_none

\* a faulty variant: response validation always on
response_validation_always == TRUE

\* `if enable_response_validation` of validator_tween
response_validation_on == enable_response_validation

\* settings.get(name, default), for a setting that is absent, True or False
settings_get(value, default) ==
    IF value = "unset" THEN default ELSE value = "True"

\* a faulty variant: self-validation is off unless the setting asks for it
spec_validation_enabled_default_off(st) ==
    settings_get(st.enable_swagger_spec_validation, FALSE)

\* lines 43-46: enable_swagger_spec_validation, True by default
spec_validation_enabled(st) ==
    settings_get(st.enable_swagger_spec_validation, TRUE)

\* lines 48-51: enable_response_validation, False by default
response_validation_setting(st) ==
    settings_get(st.enable_response_validation, FALSE)

\* validate_swagger_spec(text): the meta-schema check of the specification;
\* a text that cannot be parsed fails as a malformed document
validate_swagger_spec(doc) ==
    CASE doc.status = "unparsable"   -> Exc("SpecLoadError", NoMsg)
      [] doc.status = "meta_invalid" -> Exc("SpecInvalidError", NoMsg)
      [] OTHER                       -> NoExc

\* load_schema(schema_path): the schema map of the document, or
\* SpecLoadError when the document cannot be read or parsed
load_schema(doc) ==
    IF doc.status \in {"missing", "unparsable"}
    THEN [exc |-> Exc("SpecLoadError", NoMsg), map |-> <<>>]
    ELSE [exc |-> NoExc, map |-> doc.entries]

\* lines 53-55: open(schema_path) and validate_swagger_spec(f.read()), when
\* self-validation is enabled; the steps run and the exception raised
spec_validation_gate(st, doc) ==
    IF ~spec_validation_enabled(st)
    THEN [log |-> <<>>, exc |-> NoExc]
    ELSE IF doc.status = "missing"
         THEN [log |-> <<"open">>, exc |-> Exc("IOError", NoMsg)]
         ELSE [log |-> <<"open", "validate_swagger_spec">>,
               exc |-> validate_swagger_spec(doc)]

\* validation_tween_factory(handler, registry): the steps it runs, the
\* exception it raises or the tween it returns, with the schema map and the
\* response-validation flag the tween closes over
validation_tween_factory(st, doc) ==
    LET gate == spec_validation_gate(st, doc)
    IN  IF gate.exc.kind # ""
        THEN [tween |-> [status |-> "failed", error |-> gate.exc.kind],
              log |-> gate.log, schema_map |-> <<>>,
              enable_response_validation |-> FALSE]
        ELSE LET loaded == load_schema(doc)
             IN  IF loaded.exc.kind # ""
                 THEN [tween |-> [status |-> "failed", error |-> loaded.exc.kind],
                       log |-> gate.log \o <<"load_schema">>, schema_map |-> <<>>,
                       enable_response_validation |-> FALSE]
                 ELSE [tween |-> [status |-> "built", error |-> ""],
                       log |-> gate.log \o <<"load_schema">>,
                       schema_map |-> loaded.map,
                       enable_response_validation |-> response_validation_setting(st)]

(***************************************************************************)
(* Spec: the tween.                                                        *)
(***************************************************************************)
NoOutcome == [kind |-> "", msg |-> NoMsg, response |-> NoResponse]

Raised(exc) == [kind |-> exc.kind, msg |-> exc.msg, response |-> NoResponse]

IdleMatch ==
    /\ p1 = <<>>
    /\ p2 = <<>>
    /\ mpc = "idle"
    /\ match_result = FALSE

IdleSym ==
    /\ kwarg_re = DefaultKwargRe
    /\ match_swapped = FALSE

\* registry.settings without the two settings of the factory
DefaultSettings ==
    [enable_swagger_spec_validation |-> "unset", enable_response_validation |-> "unset"]

NoDoc == [status |-> "missing", entries |-> <<>>]

NoTween == [status |-> "unbuilt", error |-> ""]

BuiltTween == [status |-> "built", error |-> ""]

\* before validation_tween_factory is called
IdleStartup ==
    /\ settings = DefaultSettings
    /\ spec_doc = NoDoc
    /\ tween = NoTween
    /\ startup_log = <<>>

\* after validation_tween_factory returned the tween, the gate at its default
BuiltStartup ==
    /\ settings = [enable_swagger_spec_validation |-> "unset",
                   enable_response_validation |->
                       IF enable_response_validation THEN "True" ELSE "unset"]
    /\ spec_doc = [status |-> "ok", entries |-> schema_map]
    /\ tween = BuiltTween
    /\ startup_log = <<"open", "validate_swagger_spec", "load_schema">>

\* the locals of a validator_tween call that has not started
IdleSlot ==
    [request |-> NoRequest, pc |-> "idle", schema_data |-> NoneData,
     response |-> NoResponse, outcome |-> NoOutcome, handler_calls |-> 0,
     validated |-> <<>>]

IdleConc == slots = [s \in 1..NumSlots |-> IdleSlot]

\* the tween as validation_tween_factory returns it, before any request
Init ==
    /\ schema_map \in SchemaMaps
    /\ enable_response_validation \in BOOLEAN
    /\ request = NoRequest
    /\ pc = "idle"
    /\ schema_data = NoneData
    /\ response = NoResponse
    /\ outcome = NoOutcome
    /\ handler_calls = 0
    /\ validated = <<>>
    /\ IdleMatch
    /\ IdleSym
    /\ BuiltStartup
    /\ IdleConc

\* the framework calls validator_tween(request)
Receive ==
    /\ tween.status = "built"
    /\ pc = "idle"
    /\ \E r \in Requests : request' = r
    /\ pc' = "received"
    /\ UNCHANGED <<schema_map, enable_response_validation, schema_data, response,
                   outcome, handler_calls, validated>>
    /\ UNCHANGED <<match_vars, sym_vars, startup_vars, conc_vars>>

\* lines 59-70: the lookup, and the bail-out when it found nothing
Lookup ==
    /\ pc = "received"
    /\ LET sd == swagger_schema_for_request(request, schema_map)
       IN  /\ schema_data' = sd
           /\ IF bails(sd)
              THEN /\ pc' = "raised"
                   /\ outcome' = Raised(Exc("HTTPClientError", UnresolvedMsg(request.path)))
              ELSE /\ pc' = "resolved"
                   /\ outcome' = outcome
    /\ UNCHANGED <<schema_map, enable_response_validation, request, response,
                   handler_calls, validated>>
    /\ UNCHANGED <<match_vars, sym_vars, startup_vars, conc_vars>>

\* lines 72-76: _validate_request
ValidateRequest ==
    /\ pc = "resolved"
    /\ LET r == validate_request(request, schema_data.value)
       IN  /\ validated' = validated \o r.log
           /\ IF r.exc.kind # ""
              THEN /\ pc' = "raised"
                   /\ outcome' = Raised(r.exc)
              ELSE /\ pc' = "validated"
                   /\ outcome' = outcome
    /\ UNCHANGED <<schema_map, enable_response_validation, request, schema_data,
                   response, handler_calls>>
    /\ UNCHANGED <<match_vars, sym_vars, startup_vars, conc_vars>>

\* line 77: handler(request) returns a response
HandlerReturns ==
    /\ pc = "validated"
    /\ handler_calls' = handler_calls + 1
    /\ \E resp \in Responses : response' = resp
    /\ pc' = "handled"
    /\ UNCHANGED <<schema_map, enable_response_validation, request, schema_data,
                   outcome, validated>>
    /\ UNCHANGED <<match_vars, sym_vars, startup_vars, conc_vars>>

\* a faulty variant: the tween catches the handler's failure and answers
\* with a server error
HandlerRaises_converted ==
    /\ pc = "validated"
    /\ handler_calls' = handler_calls + 1
    /\ pc' = "raised"
    /\ outcome' = Raised(Exc("HTTPInternalServerError", NoMsg))
    /\ UNCHANGED <<schema_map, enable_response_validation, request, schema_data,
                   response, validated>>
    /\ UNCHANGED <<match_vars, sym_vars, startup_vars, conc_vars>>

\* line 77: handler(request) raises
HandlerRaises ==
    /\ pc = "validated"
    /\ handler_calls' = handler_calls + 1
    /\ pc' = "raised"
    /\ outcome' = Raised(Exc("HandlerError", NoMsg))
    /\ UNCHANGED <<schema_map, enable_response_validation, request, schema_data,
                   response, validated>>
    /\ UNCHANGED <<match_vars, sym_vars, startup_vars, conc_vars>>

\* lines 78-84: _validate_response, when enabled
ValidateResponse ==
    /\ pc = "handled"
    /\ response_validation_on
    /\ LET r == validate_response(request, response, schema_data.value)
       IN  /\ validated' = validated \o r.log
           /\ IF r.exc.kind # ""
              THEN /\ pc' = "raised"
                   /\ outcome' = Raised(r.exc)
              ELSE /\ pc' = "response_validated"
                   /\ outcome' = outcome
    /\ UNCHANGED <<schema_map, enable_response_validation, request, schema_data,
                   response, handler_calls>>
    /\ UNCHANGED <<match_vars, sym_vars, startup_vars, conc_vars>>

\* line 86: return response
Return ==
    /\ \/ pc = "handled" /\ ~response_validation_on
       \/ pc = "response_validated"
    /\ pc' = "returned"
    /\ outcome' = [kind |-> "returned", msg |-> NoMsg, response |-> response]
    /\ UNCHANGED <<schema_map, enable_response_validation, request, schema_data,
                   response, handler_calls, validated>>
    /\ UNCHANGED <<match_vars, sym_vars, startup_vars, conc_vars>>

\* the call is over: the framework has the response or the exception
Finish ==
    /\ pc \in {"returned", "raised"}
    /\ pc' = "idle"
    /\ request' = NoRequest
    /\ schema_data' = NoneData
    /\ response' = NoResponse
    /\ outcome' = NoOutcome
    /\ handler_calls' = 0
    /\ validated' = <<>>
    /\ UNCHANGED <<schema_map, enable_response_validation>>
    /\ UNCHANGED <<match_vars, sym_vars, startup_vars, conc_vars>>

Next ==
    \/ Receive
    \/ Lookup
    \/ ValidateRequest
    \/ HandlerReturns
    \/ HandlerRaises
    \/ ValidateResponse
    \/ Return
    \/ Finish

Spec == Init /\ [][Next]_vars

(***************************************************************************)
(* SpecMatch: partial_path_match on every pair of bounded paths.           *)
(***************************************************************************)
IdleTween ==
    /\ schema_map = <<>>
    /\ enable_response_validation = FALSE
    /\ request = NoRequest
    /\ pc = "idle"
    /\ schema_data = NoneData
    /\ response = NoResponse
    /\ outcome = NoOutcome
    /\ handler_calls = 0
    /\ validated = <<>>

InitMatch ==
    /\ IdleTween
    /\ IdleSym
    /\ IdleStartup
    /\ IdleConc
    /\ p1 \in BoundedStrings
    /\ p2 \in BoundedStrings
    /\ mpc = "input"
    /\ match_result = FALSE

CallMatch ==
    /\ mpc = "input"
    /\ match_result' = partial_path_match(p1, p2)
    /\ mpc' = "done"
    /\ UNCHANGED <<p1, p2>>
    /\ UNCHANGED <<tween_vars, sym_vars, startup_vars, conc_vars>>

NextMatch == CallMatch

SpecMatch == InitMatch /\ [][NextMatch]_vars

(***************************************************************************)
(* SpecSym: partial_path_match in both argument orders, under each pattern *)
(* of KwargRes.                                                            *)
(***************************************************************************)
InitSym ==
    /\ IdleTween
    /\ IdleStartup
    /\ IdleConc
    /\ p1 \in SymStrings
    /\ p2 \in SymStrings
    /\ kwarg_re \in KwargRes
    /\ mpc = "input"
    /\ match_result = FALSE
    /\ match_swapped = FALSE

\* partial_path_match(p1, p2, kwarg_re) and partial_path_match(p2, p1, kwarg_re)
CallBothOrders ==
    /\ mpc = "input"
    /\ match_result' = partial_path_match_kwarg_re(p1, p2, kwarg_re)
    /\ match_swapped' = partial_path_match_kwarg_re(p2, p1, kwarg_re)
    /\ mpc' = "done"
    /\ UNCHANGED <<p1, p2, kwarg_re>>
    /\ UNCHANGED <<tween_vars, startup_vars, conc_vars>>

NextSym == CallBothOrders

SpecSym == InitSym /\ [][NextSym]_vars

(***************************************************************************)
(* SpecStartup: the factory on every setting and document, then the tween. *)
(***************************************************************************)
SettingValues == {"unset", "True", "False"}

SettingsSet ==
    [enable_swagger_spec_validation : SettingValues,
     enable_response_validation : SettingValues]

\* the file at schema_path: absent, not JSON, against the meta-schema, or fine
DocStatuses == {"missing", "unparsable", "meta_invalid", "ok"}

\* the documents: each declares at most one endpoint
SpecDocs ==
    [status : DocStatuses, entries : {m \in SchemaMaps : Len(m) <= 1}]

InitStartup ==
    /\ IdleTween
    /\ IdleMatch
    /\ IdleSym
    /\ IdleConc
    /\ settings \in SettingsSet
    /\ spec_doc \in SpecDocs
    /\ tween = NoTween
    /\ startup_log = <<>>

\* the framework calls validation_tween_factory(handler, registry)
Factory ==
    /\ tween.status = "unbuilt"
    /\ LET f == validation_tween_factory(settings, spec_doc)
       IN  /\ tween' = f.tween
           /\ startup_log' = f.log
           /\ schema_map' = f.schema_map
           /\ enable_response_validation' = f.enable_response_validation
    /\ UNCHANGED <<request, pc, schema_data, response, outcome, handler_calls,
                   validated, settings, spec_doc>>
    /\ UNCHANGED <<match_vars, sym_vars, conc_vars>>

NextStartup ==
    \/ Factory
    \/ Receive
    \/ Lookup
    \/ ValidateRequest
    \/ HandlerReturns
    \/ HandlerRaises
    \/ ValidateResponse
    \/ Return
    \/ Finish

SpecStartup == InitStartup /\ [][NextStartup]_vars

(***************************************************************************)
(* SpecConc: one tween, NumSlots calls of validator_tween in flight.  The  *)
(* schema map, with the resolver it holds, and the response-validation     *)
(* flag are the closure of the tween, shared by the calls; everything else *)
(* is local to a call.  The calls interleave between the steps of          *)
(* validator_tween.                                                        *)
(***************************************************************************)
\* the maps of SpecConc, one of them with a literal path behind its template
ConcMaps ==
    {<<GetItems, PostItem>>, <<GetItem, GetItemAbc, GetStatic>>, <<PostItems>>}

\* the requests of SpecConc: every path, with and without a body
ConcRequests ==
    {r \in Requests :
        /\ r.method = "GET"
        /\ r.params = EmptyItems
        /\ r.matchdict = [id |-> PyStr("42")]
        /\ r.json_body \in {PyNone, PyDict([name |-> PyStr("x")])}}

\* the responses of the handler in SpecConc: one that keeps the response
\* schema BodyName and one that breaks it
ConcResponses ==
    {resp \in Responses :
        /\ resp.headers = [ContentType |-> JsonContentType, XUpstream |-> "none"]
        /\ resp.content \in {"{\"name\": \"x\"}", "{}"}}

InitConc ==
    /\ schema_map \in ConcMaps
    /\ enable_response_validation \in BOOLEAN
    /\ request = NoRequest
    /\ pc = "idle"
    /\ schema_data = NoneData
    /\ response = NoResponse
    /\ outcome = NoOutcome
    /\ handler_calls = 0
    /\ validated = <<>>
    /\ IdleMatch
    /\ IdleSym
    /\ BuiltStartup
    /\ IdleConc

\* the locals of call s become loc; nothing else changes
SetSlot(s, loc) ==
    /\ slots' = [slots EXCEPT ![s] = loc]
    /\ UNCHANGED <<tween_vars, match_vars, sym_vars, startup_vars>>

\* the framework calls validator_tween(request) while other calls are in flight
CReceive(s) ==
    /\ tween.status = "built"
    /\ slots[s].pc = "idle"
    /\ \E r \in ConcRequests :
          SetSlot(s, [slots[s] EXCEPT !.request = r, !.pc = "received"])

\* a faulty variant: the lookup moves the entry it found to the front of the map
CLookup_promoting(s) ==
    /\ slots[s].pc = "received"
    /\ LET sd == swagger_schema_for_request(slots[s].request, schema_map)
           hit == {i \in DOMAIN schema_map : schema_map[i].value = sd.value}
       IN  /\ slots' = [slots EXCEPT ![s] =
                  [slots[s] EXCEPT !.schema_data = sd,
                                   !.pc = IF bails(sd) THEN "raised" ELSE "resolved",
                                   !.outcome = IF bails(sd)
                                               THEN Raised(Exc("HTTPClientError",
                                                        UnresolvedMsg(slots[s].request.path)))
                                               ELSE @]]
           /\ schema_map' =
                  IF bails(sd) \/ hit = {}
                  THEN schema_map
                  ELSE LET i == CHOOSE i \in hit : TRUE
                       IN  <<schema_map[i]>> \o SubSeq(schema_map, 1, i - 1)
                               \o SubSeq(schema_map, i + 1, Len(schema_map))
    /\ UNCHANGED <<enable_response_validation, request, pc, schema_data, response,
                   outcome, handler_calls, validated>>
    /\ UNCHANGED <<match_vars, sym_vars, startup_vars>>

\* lines 59-70 in call s
CLookup(s) ==
    /\ slots[s].pc = "received"
    /\ LET sd == swagger_schema_for_request(slots[s].request, schema_map)
       IN  SetSlot(s, [slots[s] EXCEPT
                          !.schema_data = sd,
                          !.pc = IF bails(sd) THEN "raised" ELSE "resolved",
                          !.outcome = IF bails(sd)
                                      THEN Raised(Exc("HTTPClientError",
                                               UnresolvedMsg(slots[s].request.path)))
                                      ELSE @])

\* lines 72-76 in call s
CValidateRequest(s) ==
    /\ slots[s].pc = "resolved"
    /\ LET r == validate_request(slots[s].request, slots[s].schema_data.value)
       IN  SetSlot(s, [slots[s] EXCEPT
                          !.validated = @ \o r.log,
                          !.pc = IF r.exc.kind # "" THEN "raised" ELSE "validated",
                          !.outcome = IF r.exc.kind # "" THEN Raised(r.exc) ELSE @])

\* line 77 in call s: the handler returns a response
CHandlerReturns(s) ==
    /\ slots[s].pc = "validated"
    /\ \E resp \in ConcResponses :
          SetSlot(s, [slots[s] EXCEPT !.handler_calls = @ + 1,
                                      !.response = resp,
                                      !.pc = "handled"])

\* line 77 in call s: the handler raises
CHandlerRaises(s) ==
    /\ slots[s].pc = "validated"
    /\ SetSlot(s, [slots[s] EXCEPT !.handler_calls = @ + 1,
                                   !.pc = "raised",
                                   !.outcome = Raised(Exc("HandlerError", NoMsg))])

\* lines 78-84 in call s
CValidateResponse(s) ==
    /\ slots[s].pc = "handled"
    /\ response_validation_on
    /\ LET r == validate_response(slots[s].request, slots[s].response,
                                  slots[s].schema_data.value)
       IN  SetSlot(s, [slots[s] EXCEPT
                          !.validated = @ \o r.log,
                          !.pc = IF r.exc.kind # "" THEN "raised" ELSE "response_validated",
                          !.outcome = IF r.exc.kind # "" THEN Raised(r.exc) ELSE @])

\* line 86 in call s
CReturn(s) ==
    /\ \/ slots[s].pc = "handled" /\ ~response_validation_on
       \/ slots[s].pc = "response_validated"
    /\ SetSlot(s, [slots[s] EXCEPT
                      !.pc = "returned",
                      !.outcome = [kind |-> "returned", msg |-> NoMsg,
                                   response |-> slots[s].response]])

\* call s is over
CFinish(s) ==
    /\ slots[s].pc \in {"returned", "raised"}
    /\ SetSlot(s, IdleSlot)

NextConc ==
    \E s \in 1..NumSlots :
        \/ CReceive(s)
        \/ CLookup(s)
        \/ CValidateRequest(s)
        \/ CHandlerReturns(s)
        \/ CHandlerRaises(s)
        \/ CValidateResponse(s)
        \/ CReturn(s)
        \/ CFinish(s)

SpecConc == InitConc /\ [][NextConc]_vars

(***************************************************************************)
(* Properties.                                                             *)
(***************************************************************************)
Terminal == pc \in {"returned", "raised"}

AfterLookup == pc \notin {"idle", "received"}

RequestTargets == {"query", "path", "body"}

\* the numeric-looking texts among the parameter values of the requests
NumericStrings == {"42", "10"}

\* an entry matches the request on its path and on its method
EntryMatchesRequest(e) ==
    partial_path_match(request.path, e.path) /\ e.method = request.method

SomeEntryMatchesPath ==
    \E i \in DOMAIN schema_map : partial_path_match(request.path, schema_map[i].path)

\* the handler returned a response to the tween
HandlerReturned == handler_calls = 1 /\ response # NoResponse

\* the body of the handler's response, as prepare_body extracts it, breaks
\* the response-body schema of the bundle
ResponseBodyViolates ==
    /\ HandlerReturned
    /\ ~schema_data.value.response_body_schema.is_none
    /\ prepare_body(response).ok
    /\ iter_errors(4, prepare_body(response).value,
                   schema_data.value.response_body_schema) # {}

\* C1: after the lookup, schema_data is the value of an entry that matches the
\* request on path and on method, and is None when no entry matches on both.
C1_LookupMatchesPathAndMethod ==
    AfterLookup =>
        IF \E i \in DOMAIN schema_map : EntryMatchesRequest(schema_map[i])
        THEN /\ ~schema_data.is_none
             /\ \E i \in DOMAIN schema_map :
                    /\ EntryMatchesRequest(schema_map[i])
                    /\ schema_map[i].value = schema_data.value
        ELSE schema_data.is_none

\* C2: a request whose path matches the skip pattern is never rejected by the
\* tween and no validator runs for it, whatever the schema map declares.
C2_SkipPathNeverRejected ==
    skip_validation_re_match(request.path) =>
        /\ validated = <<>>
        /\ pc = "raised" => outcome.kind = "HandlerError"

\* C3: a query or path validator run on parameters given as text (their schema
\* declares them of the extension type int) ends Valid exactly when each text
\* is numeric-looking: "42" is accepted, "abc" is rejected.
C3_NumericStringAccepted ==
    \A i \in DOMAIN validated :
        LET c == validated[i]
        IN  (c.target \in {"query", "path"} /\ DOMAIN c.instance.items # {}) =>
                (c.result = "Valid" <=>
                    \A k \in DOMAIN c.instance.items :
                        c.instance.items[k].v \in NumericStrings)

\* C4: no validator runs against a null schema, and with response validation
\* enabled and a null response-body schema a request whose handler returned a
\* decodable response ends with that response returned.
C4_NullSchemaIsNoOp ==
    /\ \A i \in DOMAIN validated :
          LET b == schema_data.value
          IN  /\ validated[i].target = "query" => ~b.request_query_schema.is_none
              /\ validated[i].target = "path" => ~b.request_path_schema.is_none
              /\ validated[i].target = "body" => ~b.request_body_schema.is_none
              /\ validated[i].target = "response" => ~b.response_body_schema.is_none
    /\ ( /\ enable_response_validation
         /\ Terminal
         /\ HandlerReturned
         /\ prepare_body(response).ok
         /\ schema_data.value.response_body_schema.is_none )
       => outcome.kind = "returned"

C6_InvalidRequestRejected ==
    \A i \in DOMAIN validated :
        LET c == validated[i]
        IN  /\ (c.target \in RequestTargets /\ c.result = "Invalid") =>
                  /\ pc = "raised"
                  /\ outcome.kind = "HTTPClientError"
                  /\ outcome.msg = c.msg
                  /\ handler_calls = 0
            /\ (c.target = "body" /\ ~request.has_json_body) =>
                  c.instance = PyDict(EmptyItems)

C6_Witness ==
    /\ pc = "raised"
    /\ ~request.has_json_body
    /\ validated # <<>>
    /\ validated[Len(validated)].target = "body"
    /\ validated[Len(validated)].result = "Invalid"
    /\ outcome.msg = Msg("required", PyDict(EmptyItems), "name")

\* C7: the handler is called at most once per request; when the call is over,
\* the lookup found an entry and no request-side validator ended Invalid, it
\* was called exactly once; and it is not called before _validate_request is
\* over.
C7_HandlerOnceAfterValidation ==
    /\ handler_calls <= 1
    /\ ( /\ Terminal
         /\ SomeEntryMatchesPath
         /\ \A i \in DOMAIN validated :
               validated[i].target \in RequestTargets => validated[i].result = "Valid" )
       => handler_calls = 1
    /\ handler_calls >= 1 => pc \in {"handled", "response_validated", "returned", "raised"}

C7_Witness ==
    /\ pc = "returned"
    /\ handler_calls = 1
    /\ Len(validated) >= 1
    /\ validated[1].target \in RequestTargets

\* C8 as stated: with response validation enabled, a response whose body
\* breaks the response-body schema ends the call with HTTPInternalServerError.
C8_ViolatingResponseIsServerError ==
    (enable_response_validation /\ Terminal /\ ResponseBodyViolates) =>
        /\ pc = "raised"
        /\ outcome.kind = "HTTPInternalServerError"

\* C8 amended: the same for a request whose path does not match the skip
\* pattern; the error carries the violation's message, and
\* HTTPInternalServerError is raised only after the handler returned.
C8_ViolatingResponseIsServerErrorUnlessSkipped ==
    /\ ( /\ enable_response_validation
         /\ Terminal
         /\ ResponseBodyViolates
         /\ ~skip_validation_re_match(request.path) )
       => /\ pc = "raised"
          /\ outcome.kind = "HTTPInternalServerError"
          /\ outcome.msg \in iter_errors(4, prepare_body(response).value,
                                         schema_data.value.response_body_schema)
    /\ outcome.kind = "HTTPInternalServerError" =>
          /\ HandlerReturned
          /\ enable_response_validation

C8_Witness ==
    /\ pc = "raised"
    /\ outcome.kind = "HTTPInternalServerError"
    /\ Len(validated) = 2
    /\ validated[1].target = "query"
    /\ validated[1].result = "Valid"
    /\ validated[2].target = "response"
    /\ validated[2].result = "Invalid"
    /\ outcome.msg = validated[2].msg

\* C9: with response validation disabled no response validator runs, a call
\* whose handler returned ends returning that very response, and nothing is
\* raised after the handler was called except by the handler itself.
C9_DisabledResponseValidation ==
    ~enable_response_validation =>
        /\ \A i \in DOMAIN validated : validated[i].target # "response"
        /\ (Terminal /\ HandlerReturned) =>
              /\ pc = "returned"
              /\ outcome.kind = "returned"
              /\ outcome.response = response
        /\ (pc = "raised" /\ handler_calls = 1) => outcome.kind = "HandlerError"

C9_Witness ==
    /\ ~enable_response_validation
    /\ pc = "returned"
    /\ ResponseBodyViolates
    /\ ~skip_validation_re_match(request.path)
    /\ outcome.response = response

\* the positions of the separators of a path
SlashPositions(p) == {i \in 1..Len(p) : p[i] = "/"}

NumSegments(p) == Cardinality(SlashPositions(p)) + 1

\* the position of the k-th separator; 0 before the first segment, Len(p) + 1
\* after the last
SeparatorAt(p, k) ==
    IF k = 0 THEN 0
    ELSE IF k > Cardinality(SlashPositions(p)) THEN Len(p) + 1
    ELSE CHOOSE i \in SlashPositions(p) :
            Cardinality({j \in SlashPositions(p) : j <= i}) = k

\* the k-th segment: the characters between two separators
Segment(p, k) == SubSeq(p, SeparatorAt(p, k - 1) + 1, SeparatorAt(p, k) - 1)

SegmentsAgree(a, b) ==
    /\ NumSegments(a) = NumSegments(b)
    /\ \A k \in 1..NumSegments(a) :
          \/ kwarg_re_match(Segment(a, k))
          \/ kwarg_re_match(Segment(b, k))
          \/ Segment(a, k) = Segment(b, k)

FirstMatchIndex ==
    CHOOSE i \in DOMAIN schema_map :
        /\ partial_path_match(request.path, schema_map[i].path)
        /\ \A j \in 1..(i - 1) : ~partial_path_match(request.path, schema_map[j].path)

\* C11: when entries of the map match the request, schema_data is the value of
\* the earliest of them in the map's order, whether its template is the more
\* specific or not: /items/{id} before /items/abc gives a request to
\* /items/abc the bundle of /items/{id}, and the other order gives it the
\* bundle of /items/abc.
C11_EarliestMatchWins ==
    /\ (AfterLookup /\ SomeEntryMatchesPath) =>
          schema_data = SomeData(schema_map[FirstMatchIndex].value)
    /\ (AfterLookup /\ request.path = ItemAbcPath) =>
          /\ schema_map = <<GetItem, GetItemAbc>> => schema_data.value = GetItem.value
          /\ schema_map = <<GetItemAbc, GetItem>> => schema_data.value = GetItemAbc.value

C11_Witness ==
    /\ pc = "resolved"
    /\ request.path = ItemAbcPath
    /\ schema_map = <<GetItem, GetItemAbc>>
    /\ schema_data.value = GetItem.value
    /\ GetItem.value # GetItemAbc.value

Rank(target) ==
    CASE target = "query"    -> 1
      [] target = "path"     -> 2
      [] target = "body"     -> 3
      [] target = "response" -> 4

\* the schema of the bundle for a request-side target, and the value the
\* target validates
SchemaOf(target) ==
    CASE target = "query" -> schema_data.value.request_query_schema
      [] target = "path"  -> schema_data.value.request_path_schema
      [] target = "body"  -> schema_data.value.request_body_schema

InstanceOf(target) ==
    CASE target = "query" -> PyDict(request.params)
      [] target = "path"  -> PyDict(request.matchdict)
      [] target = "body"  -> body_of(request)

\* C14: the request-side validators run in the order query, path, body, each
\* on its own value and only for a non-null schema; nothing runs after a
\* validator that ended Invalid, and the HTTPClientError carries the message of
\* that validator; once _validate_request is over for a path outside the skip
\* pattern, a target has run exactly when its schema is non-null and no
\* earlier target ended Invalid.
C14_RequestValidationOrder ==
    /\ \A i, j \in DOMAIN validated :
          i < j => Rank(validated[i].target) < Rank(validated[j].target)
    /\ \A i \in DOMAIN validated :
          LET c == validated[i]
          IN  c.target \in RequestTargets =>
                 /\ ~SchemaOf(c.target).is_none
                 /\ c.instance = InstanceOf(c.target)
                 /\ c.result = "Invalid" =>
                       /\ i = Len(validated)
                       /\ outcome.kind = "HTTPClientError"
                       /\ outcome.msg = c.msg
    /\ (pc \notin {"idle", "received", "resolved"}
            /\ ~skip_validation_re_match(request.path)) =>
          \A t \in RequestTargets :
              (\E i \in DOMAIN validated : validated[i].target = t)
              <=> /\ ~SchemaOf(t).is_none
                  /\ \A i \in DOMAIN validated :
                        Rank(validated[i].target) < Rank(t) =>
                            validated[i].result = "Valid"

\* the query passes, the path parameters fail, and the body, which would fail
\* too, is not validated
C14_Witness ==
    /\ pc = "raised"
    /\ Len(validated) = 2
    /\ validated[1].target = "query" /\ validated[1].result = "Valid"
    /\ validated[2].target = "path" /\ validated[2].result = "Invalid"
    /\ outcome.msg = validated[2].msg
    /\ ~schema_data.value.request_body_schema.is_none
    /\ iter_errors(4, body_of(request), schema_data.value.request_body_schema) # {}

ResponseValidated == \E i \in DOMAIN validated : validated[i].target = "response"

\* C15: with response validation enabled, a request on a skip-pattern path
\* whose handler returned never has its response validated and never ends
\* with HTTPInternalServerError; once it is over, the handler's response has
\* been returned as it was.
C15_SkipPathResponseNotValidated ==
    ( /\ enable_response_validation
      /\ skip_validation_re_match(request.path)
      /\ HandlerReturned )
    => /\ ~ResponseValidated
       /\ outcome.kind # "HTTPInternalServerError"
       /\ pc # "raised"
       /\ Terminal => (outcome.kind = "returned" /\ outcome.response = response)

\* a response whose body breaks the response schema comes back on /static/...
C15_Witness ==
    /\ enable_response_validation
    /\ skip_validation_re_match(request.path)
    /\ pc = "returned"
    /\ outcome.response = response
    /\ ResponseBodyViolates

\* the failure the handler raised
HandlerFailure == Exc("HandlerError", NoMsg)

\* the handler was called and raised
HandlerRaised == handler_calls = 1 /\ response = NoResponse

\* C16: when the handler raises, the call ends with the handler's own failure,
\* not with HTTPClientError or HTTPInternalServerError; the response validator
\* has not run, whether enabled or not, and no response is returned.
C16_HandlerFailurePropagates ==
    HandlerRaised =>
        /\ pc = "raised"
        /\ outcome = Raised(HandlerFailure)
        /\ outcome.kind \notin {"HTTPClientError", "HTTPInternalServerError"}
        /\ ~ResponseValidated
        /\ outcome.response = NoResponse

C16_Witness ==
    /\ HandlerRaised
    /\ pc = "raised"
    /\ enable_response_validation
    /\ ~schema_data.value.response_body_schema.is_none
    /\ ~skip_validation_re_match(request.path)

\* C17: the value the response validator is given is the decoded JSON exactly
\* when the Content-Type of the response is 'application/json; charset=UTF-8',
\* and the raw content in every other case, whatever the other headers hold.
C17_DecodesIffContentTypeIsJson ==
    \A i \in DOMAIN validated :
        validated[i].target = "response" =>
            validated[i].instance =
                IF response.headers.ContentType = JsonContentType
                THEN loads(response.content).value
                ELSE PyStr(response.content)

\* a segment enclosed in braces as a whole
WhollyBraced(s) ==
    /\ Len(s) >= 2
    /\ s[1] = "{"
    /\ s[Len(s)] = "}"

\* C18: two paths match only if, at every position, one of the two segments is
\* enclosed in braces as a whole or the two segments are equal.
C18_PlaceholderIsWholeSegment ==
    (mpc = "done" /\ match_result) =>
        \A k \in 1..NumSegments(p1) :
            \/ WhollyBraced(Segment(p1, k))
            \/ WhollyBraced(Segment(p2, k))
            \/ Segment(p1, k) = Segment(p2, k)

\* C19: partial_path_match gives the same value for (p1, p2) and for
\* (p2, p1), under every pattern; under the default pattern that value is the
\* one of the two-argument call.
C19_PathMatchSymmetric ==
    mpc = "done" =>
        /\ match_result = match_swapped
        /\ kwarg_re = DefaultKwargRe => match_result = partial_path_match(p1, p2)

\* the placeholder is in the second path only, under a pattern other than the
\* default
C19_Witness ==
    /\ mpc = "done"
    /\ kwarg_re = <<"a", AnyChars>>
    /\ p1 = <<"{">>
    /\ p2 = <<"a", "}">>
    /\ match_result
    /\ match_swapped

Ran(step) == \E i \in DOMAIN startup_log : startup_log[i] = step

\* no request was looked up, validated or handed to the handler
NoRequestServed ==
    /\ pc = "idle"
    /\ request = NoRequest
    /\ schema_data = NoneData
    /\ validated = <<>>
    /\ handler_calls = 0
    /\ response = NoResponse

\* C12: unless the setting turns it off, self-validation is the first thing
\* the factory runs, before load_schema; a document that fails it, or that
\* cannot be loaded, makes the factory fail: there is no tween, no schema map,
\* and no request is looked up, validated or handed to the handler.
C12_StartupGate ==
    /\ tween.status = "unbuilt" => NoRequestServed
    /\ tween.status # "unbuilt" =>
          /\ settings.enable_swagger_spec_validation # "False" =>
                /\ startup_log # <<>>
                /\ startup_log[1] = "open"
                /\ spec_doc.status # "missing" => startup_log[2] = "validate_swagger_spec"
                /\ \A i \in DOMAIN startup_log : startup_log[i] = "load_schema" => i = 3
                /\ spec_doc.status # "ok" =>
                      /\ tween.status = "failed"
                      /\ ~Ran("load_schema")
          /\ spec_doc.status \in {"missing", "unparsable"} => tween.status = "failed"
          /\ tween.status = "built" =>
                /\ Ran("load_schema")
                /\ schema_map = spec_doc.entries
          /\ tween.status = "failed" =>
                /\ tween.error # ""
                /\ schema_map = <<>>
                /\ NoRequestServed

\* the document breaks the meta-schema and the setting is absent
C12_Witness ==
    /\ tween.status = "failed"
    /\ tween.error = "SpecInvalidError"
    /\ settings.enable_swagger_spec_validation = "unset"
    /\ spec_doc.status = "meta_invalid"
    /\ spec_doc.entries # <<>>
    /\ startup_log = <<"open", "validate_swagger_spec">>

\* how validator_tween ends for a request served alone, given what the
\* handler does when it is called: resp, or a failure when resp is NoResponse
AloneOutcome(req, resp) ==
    LET sd == swagger_schema_for_request(req, schema_map)
    IN  IF bails(sd)
        THEN Raised(Exc("HTTPClientError", UnresolvedMsg(req.path)))
        ELSE LET r == validate_request(req, sd.value)
             IN  IF r.exc.kind # "" THEN Raised(r.exc)
                 ELSE IF resp = NoResponse THEN Raised(HandlerFailure)
                 ELSE LET v == validate_response(req, resp, sd.value)
                      IN  IF response_validation_on /\ v.exc.kind # ""
                          THEN Raised(v.exc)
                          ELSE [kind |-> "returned", msg |-> NoMsg, response |-> resp]

SlotOver(s) == slots[s].pc \in {"returned", "raised"}

\* every call that is over ended as its request ends when served alone, and
\* two calls that are over for the same request and the same handler
\* behaviour ended alike
OutcomesAsAlone ==
    /\ \A s \in 1..NumSlots :
          SlotOver(s) => slots[s].outcome = AloneOutcome(slots[s].request, slots[s].response)
    /\ \A s, t \in 1..NumSlots :
          ( /\ SlotOver(s) /\ SlotOver(t)
            /\ slots[s].request = slots[t].request
            /\ slots[s].response = slots[t].response )
          => slots[s].outcome = slots[t].outcome

====
